---------------------------- MODULE Spec2Model ----------------------------
(***************************************************************************)
(* Model of the touch painter in src/code.py: the pixel-buffer primitives  *)
(* draw_brush and draw_line, the one-time palette construction, and the    *)
(* polling loop that turns touch samples into palette picks, button        *)
(* activations and strokes.                                                *)
(*                                                                         *)
(* The display is scaled down (the panel is 720 x 720, the palette strip   *)
(* 160 wide); every geometric quantity the code derives from the display   *)
(* size is derived here in the same way.  The polling loop runs on a small *)
(* display, the direct calls of draw_brush on one large enough to hold the *)
(* largest stamp unclipped.  Time is counted in milliseconds,              *)
(* so touch_delay = 0.005 s is 5 and button_debounce_time = 0.5 s is 500.  *)
(* The float interpolation of draw_line is computed in exact rational      *)
(* arithmetic followed by int()'s truncation toward zero.                  *)
(***************************************************************************)
EXTENDS Integers, Sequences, FiniteSets, TLC

VARIABLES
    display_width,              \* graphics.display.width
    display_height,             \* graphics.display.height
    current_time,               \* time.monotonic() read at the top of the loop
    bitmap,                     \* the displayio.Bitmap: bitmap[x][y] is the source's bitmap[x, y]
    current_color,
    current_brush_index,
    pixel_size,
    brush_label,                \* brush_label.text
    last_touch_time,
    last_draw_pos,              \* None or <<x, y>>
    is_drawing,
    size_button_pressed,
    size_button_last_change,
    clear_button_pressed,
    clear_button_last_change,
    clear_runs,                 \* history: clear actions run since the last release poll
    size_runs,                  \* history: size actions run since the last release poll
    stroke_tool,                \* history: the colour and brush size last_draw_pos was sampled under
    outcome,                    \* history: which branch the last loop iteration took
    touches,                    \* history: the touch points the last iteration iterated over
    trace,                      \* history: the program state before each of them was handled
    polls,                      \* history: loop iterations so far
    poll_limit,                 \* bound: loop iterations explored
    call                        \* harness: the last direct call of a drawing primitive

vars == <<display_width, display_height, current_time, bitmap, current_color, current_brush_index, pixel_size,
          brush_label, last_touch_time, last_draw_pos, is_drawing,
          size_button_pressed, size_button_last_change, clear_button_pressed,
          clear_button_last_change, clear_runs, size_runs, stroke_tool, outcome,
          touches, trace, polls, poll_limit, call>>

---------------------------------------------------------------------------
(* Bounds of the model.                                                    *)

DisplayWidth == 8
DisplayHeight == 9
BrushDisplayWidth == 15
BrushDisplayHeight == 18
PaletteWidth == 2
StartTime == 1000
MaxPolls == 3
BrushMargin == 7
LineMargin == 1
LineMax == 4
RegionDisplayHeight == 19
MaxCyclePolls == 9
MaxButtonPolls == 4

---------------------------------------------------------------------------
(* Configuration.                                                          *)

palette_width == PaletteWidth
section_height == display_height \div 9
brush_sizes == <<1, 3, 6, 9, 12>>
touch_delay == 5
button_debounce_time == 500

None == <<>>
Pixels == (0 .. display_width - 1) \X (0 .. display_height - 1)

Abs(n) == IF n < 0 THEN 0 - n ELSE n
Max(a, b) == IF a >= b THEN a ELSE b

(* int() of the rational n / d, d > 0: truncation toward zero. *)
Truncate(n, d) == IF n >= 0 THEN n \div d ELSE 0 - ((0 - n) \div d)

---------------------------------------------------------------------------
(* Colours.                                                                *)

(* displayio.ColorConverter().convert: RGB888 to RGB565. *)
Convert(rgb888) ==
    LET r == (rgb888 \div 65536) % 256
        g == (rgb888 \div 256) % 256
        b == rgb888 % 256
    IN  (r \div 8) * 2048 + (g \div 4) * 32 + (b \div 8)

(* color_index | color_index << 8 | color_index << 16 *)
Gray(color_index) == color_index + color_index * 256 + color_index * 65536

(* rgb565 & mask, for the mask of band k. *)
BandColor(rgb565, k) ==
    LET r == (rgb565 \div 2048) * 2048
        g == ((rgb565 \div 32) % 64) * 32
        b == rgb565 % 32
    IN  CASE k = 0 -> b
          [] k = 1 -> b + g
          [] k = 2 -> g
          [] k = 3 -> r + g
          [] k = 4 -> r
          [] k = 5 -> r + b
          [] k = 6 -> rgb565
          [] OTHER -> 0

create_bitmap_and_palette ==
    [i \in 0 .. display_width - 1 |->
        [y \in 0 .. display_height - 1 |->
            LET k == y \div section_height
            IN  IF i < palette_width /\ k < 8
                THEN BandColor(Convert(Gray((i * 255) \div palette_width)), k)
                ELSE 0]]

---------------------------------------------------------------------------
(* Drawing primitives.                                                     *)

(* draw_brush without the lower range tests (0 <= x_pixel, 0 <= y_pixel). *)
BrushPixelsNoLowerTest(x, y, size) ==
    LET half_size == size \div 2
    IN  {p \in (x - half_size .. x + half_size) \X (y - half_size .. y + half_size) :
            /\ p[1] < display_width
            /\ p[2] < display_height}

(* draw_brush with range(-half_size, half_size) for both loops. *)
BrushPixelsShortRange(x, y, size) ==
    LET half_size == size \div 2
    IN  {p \in (x - half_size .. x + half_size - 1) \X (y - half_size .. y + half_size - 1) :
            /\ 0 <= p[1] /\ p[1] < display_width
            /\ 0 <= p[2] /\ p[2] < display_height}

(* The indexes draw_brush writes: those of the square that pass its range test. *)
BrushPixels(x, y, size) ==
    LET half_size == size \div 2
    IN  {p \in (x - half_size .. x + half_size) \X (y - half_size .. y + half_size) :
            /\ 0 <= p[1] /\ p[1] < display_width
            /\ 0 <= p[2] /\ p[2] < display_height}

draw_brush(bm, x, y, color, size) ==
    LET written == BrushPixels(x, y, size)
    IN  [i \in DOMAIN bm |->
            [j \in DOMAIN bm[i] |-> IF <<i, j>> \in written THEN color ELSE bm[i][j]]]

(* CircuitPython floats.  A float is a pair <<m, e>> standing for m * 2^e,  *)
(* with m a signed integer.  Every arithmetic result is rounded to a 24-bit *)
(* mantissa (IEEE single, round to nearest even) and then stored in a float *)
(* object, which keeps the upper 22 bits of the mantissa.                   *)

FloatOne == 2^23
FloatZero == <<0, 0>>

RoundHalfEven(n, d) ==
    LET q == n \div d
        r == n % d
    IN  IF 2 * r > d \/ (2 * r = d /\ q % 2 = 1) THEN q + 1 ELSE q

(* The magnitude m * 2^e with m scaled up to at least FloatOne. *)
RECURSIVE ScaleUp(_, _)
ScaleUp(m, e) == IF m >= FloatOne THEN <<m, e>> ELSE ScaleUp(2 * m, e - 1)

(* The number of low bits a magnitude has beyond 24. *)
RECURSIVE ExtraBits(_, _)
ExtraBits(m, s) == IF m \div 2^s < 2 * FloatOne THEN s ELSE ExtraBits(m, s + 1)

(* The float object of the exact value sign * m * 2^e, m >= 0. *)
FloatObject(sign, m, e) ==
    IF m = 0
    THEN FloatZero
    ELSE LET s == ExtraBits(m, 0)
             single == ScaleUp(RoundHalfEven(m, 2^s), e + s)
         IN  <<sign * (single[1] - (single[1] % 4)), single[2]>>

(* i / steps for 0 <= i <= steps, steps > 0. *)
RECURSIVE Quotient(_, _, _)
Quotient(n, d, e) ==
    IF n >= d * FloatOne
    THEN FloatObject(1, RoundHalfEven(n, d), e)
    ELSE Quotient(2 * n, d, e - 1)

FloatDivide(i, steps) ==
    IF i = 0 THEN FloatZero ELSE Quotient(i * FloatOne, steps, 0 - 23)

(* t * n for a float t >= 0 and an integer n. *)
FloatMultiply(t, n) ==
    FloatObject(IF n < 0 THEN 0 - 1 ELSE 1, t[1] * Abs(n), t[2])

(* n + f for an integer n and a float f. *)
FloatAdd(n, f) ==
    IF f = FloatZero
    THEN FloatObject(IF n < 0 THEN 0 - 1 ELSE 1, Abs(n), 0)
    ELSE LET sum == n * 2^(0 - f[2]) + f[1]
         IN  FloatObject(IF sum < 0 THEN 0 - 1 ELSE 1, Abs(sum), f[2])

(* int(f): a mantissa below 2^25 with an exponent below -24 is a fraction. *)
FloatInt(f) ==
    IF f[2] >= 0 THEN f[1] * 2^f[2]
    ELSE IF 0 - f[2] > 24 THEN 0
    ELSE Truncate(f[1], 2^(0 - f[2]))

(* int(x1 + t * (x2 - x1)) *)
Lerp(x1, x2, t) == FloatInt(FloatAdd(x1, FloatMultiply(t, x2 - x1)))

(* draw_line's loop with range(steps) in place of range(steps + 1). *)
InterpolateOpenEnd(x1, y1, x2, y2, steps) ==
    [n \in 1 .. steps |->
        LET t == FloatDivide(n - 1, steps)
        IN  <<Lerp(x1, x2, t), Lerp(y1, y2, t)>>]

(* The points draw_line's loop visits: i in range(steps + 1), t = i / steps. *)
Interpolate(x1, y1, x2, y2, steps) ==
    [n \in 1 .. steps + 1 |->
        LET t == FloatDivide(n - 1, steps)
        IN  <<Lerp(x1, x2, t), Lerp(y1, y2, t)>>]

(* The centres draw_line stamps, in order. *)
LineStamps(x1, y1, x2, y2) ==
    LET dx == Abs(x2 - x1)
        dy == Abs(y2 - y1)
        steps == Max(dx, dy)
    IN  IF steps = 0
        THEN <<<<x1, y1>>>>
        ELSE Interpolate(x1, y1, x2, y2, steps)

RECURSIVE StampAll(_, _, _, _)
StampAll(bm, points, color, size) ==
    IF points = <<>>
    THEN bm
    ELSE StampAll(draw_brush(bm, Head(points)[1], Head(points)[2], color, size),
                  Tail(points), color, size)

draw_line(bm, x1, y1, x2, y2, color, size) ==
    StampAll(bm, LineStamps(x1, y1, x2, y2), color, size)

---------------------------------------------------------------------------
(* The program state the touch handling reads and writes, as one record.   *)

State ==
    [bitmap |-> bitmap,
     current_color |-> current_color,
     current_brush_index |-> current_brush_index,
     pixel_size |-> pixel_size,
     brush_label |-> brush_label,
     last_touch_time |-> last_touch_time,
     last_draw_pos |-> last_draw_pos,
     is_drawing |-> is_drawing,
     size_button_pressed |-> size_button_pressed,
     size_button_last_change |-> size_button_last_change,
     clear_button_pressed |-> clear_button_pressed,
     clear_button_last_change |-> clear_button_last_change,
     clear_runs |-> clear_runs,
     size_runs |-> size_runs,
     stroke_tool |-> stroke_tool]

(* f"SIZE {n}" *)
SizeText(n) == <<"SIZE ", n>>

(* The range test with <= in place of < for the upper limits. *)
InRangeInclusive(x, y) ==
    /\ 0 <= x /\ x <= display_width
    /\ 0 <= y /\ y <= display_height

InRange(x, y) ==
    /\ 0 <= x /\ x < display_width
    /\ 0 <= y /\ y < display_height

(* The clear loop with range(width) for x_clear. *)
ClearBitmapWhole(bm) ==
    [i \in DOMAIN bm |-> [j \in DOMAIN bm[i] |-> 0]]

(* for x_clear in range(palette_width, width): for y_clear in range(height) *)
ClearBitmap(bm) ==
    [i \in DOMAIN bm |->
        [j \in DOMAIN bm[i] |-> IF i >= palette_width THEN 0 ELSE bm[i][j]]]

(* The clear branch without the test of clear_button_pressed. *)
ClearButtonNoLatch(s, now) ==
    IF (now - s.clear_button_last_change) > button_debounce_time
    THEN [s EXCEPT !.bitmap = ClearBitmap(s.bitmap),
                   !.clear_button_pressed = TRUE,
                   !.clear_button_last_change = now,
                   !.last_draw_pos = None,
                   !.is_drawing = FALSE,
                   !.clear_runs = @ + 1]
    ELSE s

(* The clear branch that latches whenever the button is free, the cooldown *)
(* over or not.                                                           *)
ClearButtonLatchFirst(s, now) ==
    IF ~s.clear_button_pressed
    THEN IF (now - s.clear_button_last_change) > button_debounce_time
         THEN [s EXCEPT !.bitmap = ClearBitmap(s.bitmap),
                        !.clear_button_pressed = TRUE,
                        !.clear_button_last_change = now,
                        !.last_draw_pos = None,
                        !.is_drawing = FALSE,
                        !.clear_runs = @ + 1]
         ELSE [s EXCEPT !.clear_button_pressed = TRUE]
    ELSE s

(* section == 7 *)
ClearButton(s, now) ==
    IF ~s.clear_button_pressed
       /\ (now - s.clear_button_last_change) > button_debounce_time
    THEN [s EXCEPT !.bitmap = ClearBitmap(s.bitmap),
                   !.clear_button_pressed = TRUE,
                   !.clear_button_last_change = now,
                   !.last_draw_pos = None,
                   !.is_drawing = FALSE,
                   !.clear_runs = @ + 1]
    ELSE s

(* The size branch without the wrap-around: min(index + 1, last index). *)
SizeButtonNoWrap(s, now) ==
    IF ~s.size_button_pressed
       /\ (now - s.size_button_last_change) > button_debounce_time
    THEN LET index == IF s.current_brush_index + 1 < Len(brush_sizes)
                      THEN s.current_brush_index + 1
                      ELSE s.current_brush_index
         IN  [s EXCEPT !.current_brush_index = index,
                       !.pixel_size = brush_sizes[index + 1],
                       !.brush_label = SizeText(brush_sizes[index + 1]),
                       !.size_button_pressed = TRUE,
                       !.size_button_last_change = now,
                       !.last_draw_pos = None,
                       !.is_drawing = FALSE,
                       !.size_runs = @ + 1]
    ELSE s

(* The size branch with >= in place of > in the cooldown test. *)
SizeButtonInclusive(s, now) ==
    IF ~s.size_button_pressed
       /\ (now - s.size_button_last_change) >= button_debounce_time
    THEN LET index == (s.current_brush_index + 1) % Len(brush_sizes)
         IN  [s EXCEPT !.current_brush_index = index,
                       !.pixel_size = brush_sizes[index + 1],
                       !.brush_label = SizeText(brush_sizes[index + 1]),
                       !.size_button_pressed = TRUE,
                       !.size_button_last_change = now,
                       !.last_draw_pos = None,
                       !.is_drawing = FALSE,
                       !.size_runs = @ + 1]
    ELSE s

(* section == 8 *)
SizeButton(s, now) ==
    IF ~s.size_button_pressed
       /\ (now - s.size_button_last_change) > button_debounce_time
    THEN LET index == (s.current_brush_index + 1) % Len(brush_sizes)
         IN  [s EXCEPT !.current_brush_index = index,
                       !.pixel_size = brush_sizes[index + 1],
                       !.brush_label = SizeText(brush_sizes[index + 1]),
                       !.size_button_pressed = TRUE,
                       !.size_button_last_change = now,
                       !.last_draw_pos = None,
                       !.is_drawing = FALSE,
                       !.size_runs = @ + 1]
    ELSE s

(* The colour selection without the reset of the stroke. *)
ColorSelectionNoReset(s, x, y) ==
    [s EXCEPT !.current_color = s.bitmap[x][y]]

(* section < 7 *)
ColorSelection(s, x, y) ==
    [s EXCEPT !.current_color = s.bitmap[x][y],
              !.last_draw_pos = None,
              !.is_drawing = FALSE]

(* The drawing branch that stamps at the touched point and never joins. *)
DrawingAreaStampOnly(s, x, y) ==
    [s EXCEPT !.bitmap = draw_brush(s.bitmap, x, y, s.current_color, s.pixel_size),
              !.last_draw_pos = <<x, y>>,
              !.is_drawing = TRUE,
              !.stroke_tool = <<s.current_color, s.pixel_size>>]

(* x >= palette_width *)
DrawingArea(s, x, y) ==
    LET drawn == IF s.is_drawing /\ s.last_draw_pos # None
                 THEN draw_line(s.bitmap, s.last_draw_pos[1], s.last_draw_pos[2],
                                x, y, s.current_color, s.pixel_size)
                 ELSE draw_brush(s.bitmap, x, y, s.current_color, s.pixel_size)
    IN  [s EXCEPT !.bitmap = drawn,
                  !.last_draw_pos = <<x, y>>,
                  !.is_drawing = TRUE,
                  !.stroke_tool = <<s.current_color, s.pixel_size>>]

(* The dispatch without the clear branch, and with "elif section < 8". *)
LeftColumnNoClear(s, now, x, y) ==
    LET section == y \div section_height
    IN  IF section = 8 THEN SizeButton(s, now)
        ELSE IF section < 8 THEN ColorSelection(s, x, y)
        ELSE s

(* The left column's dispatch on section = y // section_height. *)
LeftColumn(s, now, x, y) ==
    LET section == y \div section_height
    IN  IF section = 7 THEN ClearButton(s, now)
        ELSE IF section = 8 THEN SizeButton(s, now)
        ELSE IF section < 7 THEN ColorSelection(s, x, y)
        ELSE s

(* The body with the left column half as wide: x < palette_width // 2. *)
HandleTouchNarrowColumn(s, now, touch) ==
    LET x == touch[1]
        y == touch[2]
    IN  IF ~InRange(x, y)
        THEN s
        ELSE LET after == IF x < palette_width \div 2
                          THEN LeftColumn(s, now, x, y)
                          ELSE DrawingArea(s, x, y)
             IN  [after EXCEPT !.last_touch_time = now]

(* One pass of the body of "for touch in graphics.touch.touches". *)
HandleTouch(s, now, touch) ==
    LET x == touch[1]
        y == touch[2]
    IN  IF ~InRange(x, y)
        THEN s
        ELSE LET after == IF x < palette_width
                          THEN LeftColumn(s, now, x, y)
                          ELSE DrawingArea(s, x, y)
             IN  [after EXCEPT !.last_touch_time = now]

(* The indexes the stamps at the given centres subscript the bitmap with. *)
BrushIndexes(points, size) ==
    UNION {BrushPixels(points[k][1], points[k][2], size) : k \in 1 .. Len(points)}

(* The indexes bitmap[...] is subscripted with while one touch is handled:  *)
(* the clear loops, the colour pick, the stamps of the drawing branch.      *)
BitmapIndexes(s, now, touch) ==
    LET x == touch[1]
        y == touch[2]
        section == y \div section_height
    IN  IF ~InRange(x, y) THEN {}
        ELSE IF x >= palette_width
        THEN IF s.is_drawing /\ s.last_draw_pos # None
             THEN BrushIndexes(LineStamps(s.last_draw_pos[1], s.last_draw_pos[2], x, y),
                               s.pixel_size)
             ELSE BrushPixels(x, y, s.pixel_size)
        ELSE IF section = 7
        THEN IF ~s.clear_button_pressed
                /\ (now - s.clear_button_last_change) > button_debounce_time
             THEN (palette_width .. display_width - 1) \X (0 .. display_height - 1)
             ELSE {}
        ELSE IF section < 7 THEN {<<x, y>>}
        ELSE {}

(* The states the for loop goes through: before each touch, and after the last. *)
RECURSIVE Steps(_, _, _)
Steps(s, now, points) ==
    IF points = <<>>
    THEN <<s>>
    ELSE <<s>> \o Steps(HandleTouch(s, now, Head(points)), now, Tail(points))

Last(seq) == seq[Len(seq)]
Front(seq) == SubSeq(seq, 1, Len(seq) - 1)

(* The release branch without the reset of the stroke. *)
ReleaseLatchesOnly(s) ==
    [s EXCEPT !.size_button_pressed = FALSE,
              !.clear_button_pressed = FALSE,
              !.clear_runs = 0,
              !.size_runs = 0]

(* Touch released. *)
Release(s) ==
    LET idle == IF s.is_drawing
                THEN [s EXCEPT !.last_draw_pos = None, !.is_drawing = FALSE]
                ELSE s
    IN  [idle EXCEPT !.size_button_pressed = FALSE,
                     !.clear_button_pressed = FALSE,
                     !.clear_runs = 0,
                     !.size_runs = 0]

Install(s) ==
    /\ bitmap' = s.bitmap
    /\ current_color' = s.current_color
    /\ current_brush_index' = s.current_brush_index
    /\ pixel_size' = s.pixel_size
    /\ brush_label' = s.brush_label
    /\ last_touch_time' = s.last_touch_time
    /\ last_draw_pos' = s.last_draw_pos
    /\ is_drawing' = s.is_drawing
    /\ size_button_pressed' = s.size_button_pressed
    /\ size_button_last_change' = s.size_button_last_change
    /\ clear_button_pressed' = s.clear_button_pressed
    /\ clear_button_last_change' = s.clear_button_last_change
    /\ clear_runs' = s.clear_runs
    /\ size_runs' = s.size_runs
    /\ stroke_tool' = s.stroke_tool

---------------------------------------------------------------------------
(* Inputs: how long a loop iteration takes, and what the touch panel reports. *)

Deltas == {touch_delay, touch_delay + 1, button_debounce_time - touch_delay}

PalettePoint == <<palette_width - 1, 0>>
ClearPoint == <<0, 7 * section_height>>
SizePoint == <<palette_width - 1, 9 * section_height - 1>>
EdgePoint == <<palette_width, section_height>>
CanvasPoint == <<palette_width + 3, 4 * section_height>>
CornerPoint == <<display_width - 1, display_height - 1>>
OutsidePoint == <<display_width, 0>>
NegativePoint == <<0 - 1, section_height>>

(* The boundary points of the regions; BelowPoint lies under the nine bands *)
(* and is on the display when its height is not a multiple of 9.            *)
CanvasTopPoint == <<palette_width, 0>>
BandSixPoint == <<0, 7 * section_height - 1>>
SizeTopPoint == <<0, 8 * section_height>>
BelowPoint == <<0, 9 * section_height>>

RegionPoints ==
    {PalettePoint, CanvasTopPoint, BandSixPoint, ClearPoint, SizeTopPoint,
     SizePoint, BelowPoint}

(* The points (50, 10), (100, 650) and (300, 650) of the 720-pixel display   *)
(* (palette_width 160, section_height 80) on the display of the model: x is  *)
(* scaled by palette_width / 160 and y by section_height / 80, which keeps   *)
(* x < palette_width and y // section_height as they are.                    *)
ScenarioPick == <<(50 * palette_width) \div 160, (10 * section_height) \div 80>>
ScenarioFirst == <<(100 * palette_width) \div 160, (650 * section_height) \div 80>>
ScenarioSecond == <<(300 * palette_width) \div 160, (650 * section_height) \div 80>>

ScenarioPoints == {ScenarioPick, ScenarioFirst, ScenarioSecond}

TouchPoints ==
    {PalettePoint, ClearPoint, SizePoint, EdgePoint, CanvasPoint, CornerPoint,
     OutsidePoint}

SingleTouchLists == {<<p>> : p \in TouchPoints}

TouchLists ==
    SingleTouchLists
    \cup {<<CanvasPoint, CornerPoint>>, <<ClearPoint, CanvasPoint>>,
          <<NegativePoint, CanvasPoint>>}

---------------------------------------------------------------------------
(* The program.                                                            *)

NoCall == [fn |-> "none"]

Setup(width, height, limit) ==
    /\ display_width = width
    /\ display_height = height
    /\ current_time = StartTime
    /\ bitmap = create_bitmap_and_palette
    /\ current_color = Convert(16777215)
    /\ current_brush_index = 2
    /\ pixel_size = brush_sizes[2 + 1]
    /\ brush_label = SizeText(brush_sizes[2 + 1])
    /\ last_touch_time = 0
    /\ last_draw_pos = None
    /\ is_drawing = FALSE
    /\ size_button_pressed = FALSE
    /\ size_button_last_change = 0
    /\ clear_button_pressed = FALSE
    /\ clear_button_last_change = 0
    /\ clear_runs = 0
    /\ size_runs = 0
    /\ stroke_tool = None
    /\ outcome = "start"
    /\ touches = <<>>
    /\ trace = <<>>
    /\ polls = 0
    /\ poll_limit = limit
    /\ call = NoCall

Init == Setup(DisplayWidth, DisplayHeight, MaxPolls)

Tick(dt) ==
    /\ polls < poll_limit
    /\ polls' = polls + 1
    /\ current_time' = current_time + dt
    /\ UNCHANGED <<display_width, display_height, poll_limit, call>>

(* graphics.touch.touched is false. *)
Released(dt) ==
    /\ Tick(dt)
    /\ outcome' = "released"
    /\ touches' = <<>>
    /\ trace' = <<>>
    /\ \E s \in {Release(State)} : Install(s)

(* Touched, but no more than touch_delay after the last handled touch. *)
Throttled(dt) ==
    /\ Tick(dt)
    /\ ~((current_time' - last_touch_time) > touch_delay)
    /\ outcome' = "throttled"
    /\ touches' = <<>>
    /\ trace' = <<>>
    /\ Install(State)

(* The fault raised after the first reported point has been handled. *)
TouchFaultLate(dt) ==
    /\ Tick(dt)
    /\ (current_time' - last_touch_time) > touch_delay
    /\ outcome' = "fault"
    /\ touches' = <<>>
    /\ trace' = <<>>
    /\ \E s \in {HandleTouch(State, current_time', CanvasPoint)} : Install(s)

(* Touched, and reading graphics.touch.touches raises RuntimeError. *)
TouchFault(dt) ==
    /\ Tick(dt)
    /\ (current_time' - last_touch_time) > touch_delay
    /\ outcome' = "fault"
    /\ touches' = <<>>
    /\ trace' = <<>>
    /\ Install(State)

(* Touched, and every reported point is handled in turn. *)
Sample(dt, points) ==
    /\ Tick(dt)
    /\ (current_time' - last_touch_time) > touch_delay
    /\ outcome' = "sampled"
    /\ touches' = points
    /\ \E steps \in {Steps(State, current_time', points)} :
          /\ trace' = Front(steps)
          /\ Install(Last(steps))

Next ==
    \/ \E dt \in Deltas : Released(dt)
    \/ \E dt \in Deltas : Throttled(dt)
    \/ \E dt \in Deltas : TouchFault(dt)
    \/ \E dt \in Deltas : \E points \in TouchLists : Sample(dt, points)

Spec == Init /\ [][Next]_vars

(* The same loop when the panel never reports more than one point. *)
NextSingle ==
    \/ \E dt \in Deltas : Released(dt)
    \/ \E dt \in Deltas : Throttled(dt)
    \/ \E dt \in Deltas : TouchFault(dt)
    \/ \E dt \in Deltas : \E points \in SingleTouchLists : Sample(dt, points)

SpecSingle == Init /\ [][NextSingle]_vars

(* The loop on a display whose height is not a multiple of 9, touched at the *)
(* boundary points of the regions.                                           *)
InitRegions == Setup(DisplayWidth, RegionDisplayHeight, MaxPolls)

NextRegions ==
    \E dt \in Deltas :
        \/ Released(dt)
        \/ \E p \in RegionPoints : Sample(dt, <<p>>)

SpecRegions == InitRegions /\ [][NextRegions]_vars

(* A longer run of the loop with fewer inputs: the touch is on the size     *)
(* button or on the canvas, or is released, and an iteration takes a little *)
(* over touch_delay or most of button_debounce_time.                        *)
CycleDeltas == {touch_delay + 1, button_debounce_time - touch_delay}
CyclePoints == {SizePoint, CanvasPoint}

InitCycle == Setup(DisplayWidth, DisplayHeight, MaxCyclePolls)

NextCycle ==
    \E dt \in CycleDeltas :
        \/ Released(dt)
        \/ \E p \in CyclePoints : Sample(dt, <<p>>)

SpecCycle == InitCycle /\ [][NextCycle]_vars

(* The loop touched at the three points of the scenario. *)
NextScenario ==
    \E dt \in Deltas :
        \/ Released(dt)
        \/ \E p \in ScenarioPoints : Sample(dt, <<p>>)

SpecScenario == Init /\ [][NextScenario]_vars

(* The loop touched at the two buttons only. *)
ButtonPoints == {ClearPoint, SizePoint}

InitButtons == Setup(DisplayWidth, DisplayHeight, MaxButtonPolls)

NextButtons ==
    \E dt \in Deltas :
        \/ Released(dt)
        \/ \E p \in ButtonPoints : Sample(dt, <<p>>)

SpecButtons == InitButtons /\ [][NextButtons]_vars

---------------------------------------------------------------------------
(* Direct calls of the drawing primitives on the freshly built bitmap.     *)

ProgramVars ==
    <<display_width, display_height, current_time, bitmap, current_color,
      current_brush_index, pixel_size, brush_label, last_touch_time, last_draw_pos, is_drawing,
      size_button_pressed, size_button_last_change, clear_button_pressed,
      clear_button_last_change, clear_runs, size_runs, stroke_tool, outcome,
      touches, trace, polls, poll_limit>>

BrushCentres ==
    ((0 - BrushMargin) .. (display_width - 1 + BrushMargin))
        \X ((0 - BrushMargin) .. (display_height - 1 + BrushMargin))

CallDrawBrush(c, size) ==
    /\ call = NoCall
    /\ call' = [fn |-> "draw_brush", x |-> c[1], y |-> c[2], size |-> size,
                color |-> current_color,
                written |-> BrushPixels(c[1], c[2], size),
                result |-> draw_brush(bitmap, c[1], c[2], current_color, size)]
    /\ UNCHANGED ProgramVars

NextBrush ==
    \E c \in BrushCentres : \E k \in 1 .. Len(brush_sizes) : CallDrawBrush(c, brush_sizes[k])

InitBrush == Setup(BrushDisplayWidth, BrushDisplayHeight, MaxPolls)

SpecBrush == InitBrush /\ [][NextBrush]_vars

LineEnds == ((0 - LineMargin) .. LineMax) \X ((0 - LineMargin) .. LineMax)

CallDrawLine(a, b, size) ==
    /\ call = NoCall
    /\ call' = [fn |-> "draw_line", a |-> a, b |-> b, size |-> size,
                color |-> current_color,
                stamps |-> LineStamps(a[1], a[2], b[1], b[2]),
                result |-> draw_line(bitmap, a[1], a[2], b[1], b[2], current_color, size)]
    /\ UNCHANGED ProgramVars

NextLine ==
    \E a \in LineEnds : \E b \in LineEnds : \E k \in 1 .. Len(brush_sizes) :
        CallDrawLine(a, b, brush_sizes[k])

SpecLine == Init /\ [][NextLine]_vars

---------------------------------------------------------------------------
(* Properties of draw_brush (checked under SpecBrush).                     *)

Chebyshev(p, x, y) == Max(Abs(p[1] - x), Abs(p[2] - y))

Pixel(bm, p) == bm[p[1]][p[2]]

(* The whole square of the call lies on the display. *)
Unclipped ==
    LET half == call.size \div 2
    IN  /\ InRange(call.x - half, call.y - half)
        /\ InRange(call.x + half, call.y + half)

Columns(pixels) == {p[1] : p \in pixels}
Rows(pixels) == {p[2] : p \in pixels}

\* C8: draw_brush sets to the given colour exactly the pixels of the display
\* within Chebyshev distance floor(size / 2) of the centre and changes no
\* other pixel; every index it writes is on the display, for every centre,
\* on the display or not.
C8_BrushFootprint ==
    call.fn = "draw_brush" =>
        /\ call.written \subseteq Pixels
        /\ DOMAIN call.result = DOMAIN bitmap
        /\ \A p \in Pixels :
              Pixel(call.result, p) =
                  IF Chebyshev(p, call.x, call.y) <= call.size \div 2
                  THEN call.color
                  ELSE Pixel(bitmap, p)

(* A size-12 stamp centred off the display that still paints part of it. *)
C8_Witness ==
    /\ call.fn = "draw_brush"
    /\ call.size = 12
    /\ ~InRange(call.x, call.y)
    /\ call.written # {}
    /\ \E p \in call.written : Pixel(call.result, p) # Pixel(bitmap, p)

\* C9 as stated: an unclipped stamp is a filled square whose side is exactly
\* size pixels.
C9_SideIsSize ==
    (call.fn = "draw_brush" /\ Unclipped) =>
        /\ Cardinality(Columns(call.written)) = call.size
        /\ Cardinality(Rows(call.written)) = call.size
        /\ Cardinality(call.written) = call.size * call.size

\* C9 amended: an unclipped stamp is a filled square whose side is
\* 2 * floor(size / 2) + 1 pixels: size for the odd sizes 1, 3, 9 and
\* size + 1 for the even sizes 6 and 12.
C9_SideIsOdd ==
    (call.fn = "draw_brush" /\ Unclipped) =>
        LET side == IF call.size % 2 = 1 THEN call.size ELSE call.size + 1
        IN  /\ Cardinality(Columns(call.written)) = side
            /\ Cardinality(Rows(call.written)) = side
            /\ Cardinality(call.written) = side * side
            /\ \A p \in call.written : Pixel(call.result, p) = call.color

(* An unclipped stamp of the even size 12: 13 x 13 pixels. *)
C9_Witness ==
    /\ call.fn = "draw_brush"
    /\ Unclipped
    /\ call.size = 12
    /\ Cardinality(call.written) = 169

---------------------------------------------------------------------------
(* Properties of draw_line (checked under SpecLine).                       *)

\* C10: draw_line(a, b) stamps the brush at a and at b, every stamp centre is
\* within one pixel per axis of the point of the exact segment it
\* interpolates, the canvas is the result of stamping at those centres, and
\* for a = b there is exactly one stamp, with the effect of draw_brush(a).
C10_LineEndpoints ==
    call.fn = "draw_line" =>
        LET a == call.a
            b == call.b
            steps == Max(Abs(b[1] - a[1]), Abs(b[2] - a[2]))
            n == Len(call.stamps)
        IN  /\ n >= 1
            /\ call.stamps[1] = a
            /\ call.stamps[n] = b
            /\ call.result = StampAll(bitmap, call.stamps, call.color, call.size)
            /\ InRange(a[1], a[2]) => Pixel(call.result, a) = call.color
            /\ InRange(b[1], b[2]) => Pixel(call.result, b) = call.color
            /\ steps > 0 =>
                  \A k \in 1 .. n :
                      \E i \in 0 .. steps :
                          /\ Abs(steps * call.stamps[k][1]
                                 - (steps * a[1] + i * (b[1] - a[1]))) <= steps
                          /\ Abs(steps * call.stamps[k][2]
                                 - (steps * a[2] + i * (b[2] - a[2]))) <= steps
            /\ a = b =>
                  /\ n = 1
                  /\ call.result = draw_brush(bitmap, a[1], a[2], call.color, call.size)

(* A diagonal-ish line with negative and positive coordinates, both ends stamped. *)
C10_Witness ==
    /\ call.fn = "draw_line"
    /\ call.a[1] < 0
    /\ call.b[1] > call.a[1] + 2
    /\ call.b[2] < call.a[2]
    /\ Len(call.stamps) > 3
    /\ call.stamps[1] = call.a
    /\ call.stamps[Len(call.stamps)] = call.b

(* The degenerate line: one stamp. *)
C10_WitnessDegenerate ==
    /\ call.fn = "draw_line"
    /\ call.a = call.b
    /\ Len(call.stamps) = 1
    /\ InRange(call.a[1], call.a[2])
    /\ Pixel(call.result, call.a) = call.color

(* A draw_line call between two distinct points of the display, as the loop *)
(* makes them.                                                              *)
DisplayLine ==
    /\ call.fn = "draw_line"
    /\ call.a # call.b
    /\ InRange(call.a[1], call.a[2])
    /\ InRange(call.b[1], call.b[2])

\* C11 as stated: for display points a # b, draw_line makes exactly max(|dx|, |dy|) + 1
\* stamps and two consecutive stamp centres differ by at most 1 in x and by
\* at most 1 in y, so the stroke has no gap for any brush size.
C11_NoGaps ==
    DisplayLine =>
        LET steps == Max(Abs(call.b[1] - call.a[1]), Abs(call.b[2] - call.a[2]))
        IN  /\ Len(call.stamps) = steps + 1
            /\ \A k \in 1 .. Len(call.stamps) - 1 :
                  /\ Abs(call.stamps[k + 1][1] - call.stamps[k][1]) <= 1
                  /\ Abs(call.stamps[k + 1][2] - call.stamps[k][2]) <= 1

(* steps * (the exact value from + (i / steps) * (to - from)). *)
ExactTimesSteps(from, to, steps, i) == steps * from + i * (to - from)

(* c is not farther from `from` than the exact value of step i is, and not  *)
(* on the other side of `from`.                                             *)
OnFromSide(c, from, to, steps, i) ==
    /\ steps * Abs(c - from) <= Abs(ExactTimesSteps(from, to, steps, i) - steps * from)
    /\ (to >= from) => (c >= from)
    /\ (to <= from) => (c <= from)

\* C12 as stated: every stamp coordinate lies on the `from` side of the exact
\* value from + (i / steps) * (to - from) it is truncated from (it is never
\* farther from `from` than the exact value is), for travel in the positive
\* and in the negative direction along each axis.
C12_TruncationTowardFrom ==
    DisplayLine =>
        LET steps == Max(Abs(call.b[1] - call.a[1]), Abs(call.b[2] - call.a[2]))
        IN  \A k \in 1 .. Len(call.stamps) :
                /\ OnFromSide(call.stamps[k][1], call.a[1], call.b[1], steps, k - 1)
                /\ OnFromSide(call.stamps[k][2], call.a[2], call.b[2], steps, k - 1)

---------------------------------------------------------------------------
(* Properties of the polling loop (checked under Spec).  The touch points  *)
(* of the last iteration are touches[1 .. n]; point i was handled in state *)
(* Before(i) and left state After(i).                                      *)

TouchIndexes == 1 .. Len(trace)
Before(i) == trace[i]
After(i) == IF i < Len(trace) THEN trace[i + 1] ELSE State

(* The point was not skipped by the range test. *)
Handled(i) == InRange(touches[i][1], touches[i][2])
Section(i) == touches[i][2] \div section_height
CanvasHit(i) == Handled(i) /\ touches[i][1] >= palette_width
LeftHit(i) == Handled(i) /\ touches[i][1] < palette_width
ClearHit(i) == LeftHit(i) /\ Section(i) = 7
SizeHit(i) == LeftHit(i) /\ Section(i) = 8

ClearRan(i) == After(i).clear_runs = Before(i).clear_runs + 1
SizeRan(i) == After(i).size_runs = Before(i).size_runs + 1

Idle(s) == ~s.is_drawing /\ s.last_draw_pos = None
Active(s) == s.is_drawing /\ s.last_draw_pos # None

\* C1: within one continuous touch (since the last poll that reported no
\* touch) the clear action and the size action have each run at most once,
\* whatever the touch samples in between; a latch is set exactly when its
\* action has run since that poll, so a set latch stays set on every
\* touched sample and only a poll without touch clears it.
C1_LatchOncePerTouch ==
    /\ clear_runs \in {0, 1}
    /\ size_runs \in {0, 1}
    /\ clear_button_pressed <=> (clear_runs = 1)
    /\ size_button_pressed <=> (size_runs = 1)
    /\ \A i \in TouchIndexes :
          /\ Before(i).clear_button_pressed <=> (Before(i).clear_runs = 1)
          /\ Before(i).size_button_pressed <=> (Before(i).size_runs = 1)
          /\ Before(i).clear_button_pressed => After(i).clear_button_pressed
          /\ Before(i).size_button_pressed => After(i).size_button_pressed

(* The finger fired the clear button, slid to the canvas and back onto the  *)
(* button after the cooldown had passed: the latch alone holds the action back. *)
C1_Witness ==
    /\ outcome = "sampled"
    /\ touches = <<ClearPoint>>
    /\ Before(1).is_drawing
    /\ clear_button_pressed
    /\ clear_runs = 1
    /\ (current_time - clear_button_last_change) > button_debounce_time

\* C2: a handled touch in a button's region runs that button's action if and
\* only if the latch is released and more than button_debounce_time has
\* passed since the button's last change; when it runs the latch is set and
\* the last change time is the sample's time, and when it does not run the
\* latch, the last change time, the bitmap and the brush size stay as they were.
C2_ButtonCooldown ==
    \A i \in TouchIndexes :
        /\ ClearHit(i) =>
              /\ ClearRan(i) <=>
                    /\ ~Before(i).clear_button_pressed
                    /\ (current_time - Before(i).clear_button_last_change)
                          > button_debounce_time
              /\ ClearRan(i) =>
                    /\ After(i).clear_button_pressed
                    /\ After(i).clear_button_last_change = current_time
              /\ ~ClearRan(i) =>
                    /\ After(i).clear_button_pressed = Before(i).clear_button_pressed
                    /\ After(i).clear_button_last_change
                          = Before(i).clear_button_last_change
                    /\ After(i).bitmap = Before(i).bitmap
        /\ SizeHit(i) =>
              /\ SizeRan(i) <=>
                    /\ ~Before(i).size_button_pressed
                    /\ (current_time - Before(i).size_button_last_change)
                          > button_debounce_time
              /\ SizeRan(i) =>
                    /\ After(i).size_button_pressed
                    /\ After(i).size_button_last_change = current_time
                    /\ After(i).pixel_size # Before(i).pixel_size
              /\ ~SizeRan(i) =>
                    /\ After(i).size_button_pressed = Before(i).size_button_pressed
                    /\ After(i).size_button_last_change
                          = Before(i).size_button_last_change
                    /\ After(i).pixel_size = Before(i).pixel_size
        /\ ~ClearHit(i) => ~ClearRan(i)
        /\ ~SizeHit(i) => ~SizeRan(i)

(* The size button was activated, released, and touched again exactly one   *)
(* cooldown after the activation: the latch is released and nothing runs.   *)
C2_Witness ==
    /\ outcome = "sampled"
    /\ touches = <<SizePoint>>
    /\ ~Before(1).size_button_pressed
    /\ size_button_last_change > 0
    /\ (current_time - size_button_last_change) = button_debounce_time
    /\ size_runs = 0
    /\ ~size_button_pressed

(* The pixels within the brush's reach of one of the centres. *)
Reach(centres, size) ==
    {q \in Pixels : \E k \in 1 .. Len(centres) :
        Chebyshev(q, centres[k][1], centres[k][2]) <= size \div 2}

Painted(before, after, pixels, color) ==
    \A q \in Pixels :
        Pixel(after, q) = IF q \in pixels THEN color ELSE Pixel(before, q)

\* C3: a handled canvas hit while the stroke is idle paints exactly one brush
\* stamp at the point; while the stroke is active it paints the brush along
\* the whole line from the last point to the new one; either way the stroke
\* is then active with the new point as its last point, and the colour and
\* brush size are as before.
C3_StrokeContinuity ==
    /\ is_drawing <=> (last_draw_pos # None)
    /\ \A i \in TouchIndexes :
          CanvasHit(i) =>
              LET b == Before(i)
                  a == After(i)
                  p == touches[i]
              IN  /\ Idle(b) \/ Active(b)
                  /\ Idle(b) =>
                        Painted(b.bitmap, a.bitmap, Reach(<<p>>, b.pixel_size),
                                b.current_color)
                  /\ Active(b) =>
                        Painted(b.bitmap, a.bitmap,
                                Reach(LineStamps(b.last_draw_pos[1], b.last_draw_pos[2],
                                                 p[1], p[2]), b.pixel_size),
                                b.current_color)
                  /\ Active(a)
                  /\ a.last_draw_pos = p
                  /\ a.current_color = b.current_color
                  /\ a.pixel_size = b.pixel_size

(* Two consecutive canvas hits: a pixel out of reach of both end points is  *)
(* painted, so the two hits are joined.                                     *)
C3_Witness ==
    /\ outcome = "sampled"
    /\ touches = <<CornerPoint>>
    /\ Active(Before(1))
    /\ Before(1).last_draw_pos = CanvasPoint
    /\ \E q \in Pixels :
          /\ q \notin Reach(<<CanvasPoint, CornerPoint>>, pixel_size)
          /\ Pixel(bitmap, q) = current_color
          /\ Pixel(Before(1).bitmap, q) # current_color

\* C4 as stated: after every handled touch that is not a canvas hit (a
\* palette pick, a clear-button hit or a size-button hit, in any latch or
\* cooldown state) the stroke is idle with no last point.
C4_NonCanvasHitResets ==
    \A i \in TouchIndexes : LeftHit(i) => Idle(After(i))

\* C5 as stated: the state after a sample that reports several points is the
\* state the first reported point alone would have left.
C5_FirstPointOnly ==
    (outcome = "sampled" /\ Len(touches) >= 1) =>
        State = HandleTouch(Before(1), current_time, touches[1])

\* C6 as stated: every pixel of the palette strip holds the value the palette
\* construction wrote.
C6_PaletteIntact ==
    \A q \in Pixels :
        q[1] < palette_width => Pixel(bitmap, q) = Pixel(create_bitmap_and_palette, q)

\* C7: when the clear action runs, every pixel with x >= palette_width
\* becomes 0, every pixel with x < palette_width keeps its value, the current
\* colour, the brush index and the brush size are unchanged, and the stroke
\* is idle.
C7_ClearEffect ==
    \A i \in TouchIndexes :
        ClearRan(i) =>
            LET b == Before(i)
                a == After(i)
            IN  /\ \A q \in Pixels :
                      Pixel(a.bitmap, q) = IF q[1] >= palette_width
                                           THEN 0
                                           ELSE Pixel(b.bitmap, q)
                /\ a.current_color = b.current_color
                /\ a.current_brush_index = b.current_brush_index
                /\ a.pixel_size = b.pixel_size
                /\ a.brush_label = b.brush_label
                /\ Idle(a)

(* The clear action ran on a canvas with paint on it, in the middle of a    *)
(* stroke, with paint on the palette strip as well.                         *)
C7_Witness ==
    /\ outcome = "sampled"
    /\ touches = <<ClearPoint>>
    /\ ClearRan(1)
    /\ Active(Before(1))
    /\ \E q \in Pixels : q[1] >= palette_width /\ Pixel(Before(1).bitmap, q) # 0
    /\ \E q \in Pixels :
          /\ q[1] < palette_width
          /\ Pixel(bitmap, q) # Pixel(create_bitmap_and_palette, q)
    /\ \A q \in Pixels : q[1] >= palette_width => Pixel(bitmap, q) = 0


---------------------------------------------------------------------------
(* Region classification (checked under SpecRegions).                      *)

(* The state without the time of the last handled touch, which the loop    *)
(* sets after the dispatch for every handled touch.                        *)
Dispatched(s) == [s EXCEPT !.last_touch_time = 0]

SameTool(a, b) ==
    /\ a.current_color = b.current_color
    /\ a.current_brush_index = b.current_brush_index
    /\ a.pixel_size = b.pixel_size
    /\ a.brush_label = b.brush_label

SameButtons(a, b) ==
    /\ a.clear_button_pressed = b.clear_button_pressed
    /\ a.clear_button_last_change = b.clear_button_last_change
    /\ a.size_button_pressed = b.size_button_pressed
    /\ a.size_button_last_change = b.size_button_last_change
    /\ a.clear_runs = b.clear_runs
    /\ a.size_runs = b.size_runs

(* The effect of a canvas hit at p. *)
CanvasEffect(b, a, p) ==
    /\ a.is_drawing
    /\ a.last_draw_pos = p
    /\ Pixel(a.bitmap, p) = b.current_color
    /\ SameTool(a, b)
    /\ SameButtons(a, b)

(* The effect of a palette pick at p. *)
PaletteEffect(b, a, p) ==
    /\ a.current_color = Pixel(b.bitmap, p)
    /\ a.bitmap = b.bitmap
    /\ a.pixel_size = b.pixel_size
    /\ Idle(a)
    /\ SameButtons(a, b)

(* The effect of a hit on the clear button: it runs exactly when the button *)
(* is not latched and its cooldown is over, and never touches the tool.     *)
ClearEffect(b, a) ==
    /\ SameTool(a, b)
    /\ a.size_runs = b.size_runs
    /\ a.size_button_pressed = b.size_button_pressed
    /\ (a.clear_runs = b.clear_runs + 1) <=>
          (~b.clear_button_pressed
           /\ current_time - b.clear_button_last_change > button_debounce_time)
    /\ (a.clear_runs = b.clear_runs) => (Dispatched(a) = Dispatched(b))

(* The effect of a hit on the size button. *)
SizeEffect(b, a) ==
    /\ a.bitmap = b.bitmap
    /\ a.current_color = b.current_color
    /\ a.clear_runs = b.clear_runs
    /\ a.clear_button_pressed = b.clear_button_pressed
    /\ (a.size_runs = b.size_runs + 1) <=>
          (~b.size_button_pressed
           /\ current_time - b.size_button_last_change > button_debounce_time)
    /\ (a.size_runs = b.size_runs + 1) =>
          a.current_brush_index = (b.current_brush_index + 1) % Len(brush_sizes)
    /\ (a.size_runs = b.size_runs) => (Dispatched(a) = Dispatched(b))

C13_WitnessButtons ==
    /\ outcome = "sampled"
    /\ touches = <<SizeTopPoint>>
    /\ SizeRan(1)
    /\ Before(1).clear_button_pressed
    /\ pixel_size = 9


---------------------------------------------------------------------------
(* Brush size cycling (checked under SpecCycle).                           *)

BrushConsistent ==
    /\ current_brush_index \in 0 .. Len(brush_sizes) - 1
    /\ pixel_size = brush_sizes[current_brush_index + 1]
    /\ brush_label = SizeText(pixel_size)

(* The loop iteration ran the size action. *)
SizeActivation == outcome' = "sampled" /\ size_runs' = size_runs + 1

BrushStep ==
    IF SizeActivation
    THEN /\ current_brush_index' = (current_brush_index + 1) % 5
         /\ pixel_size' = CASE pixel_size = 1 -> 3
                            [] pixel_size = 3 -> 6
                            [] pixel_size = 6 -> 9
                            [] pixel_size = 9 -> 12
                            [] pixel_size = 12 -> 1
    ELSE UNCHANGED <<current_brush_index, pixel_size, brush_label>>

\* C14: in every reachable state the brush index is in 0..4, the brush size
\* is brush_sizes[index] and the label reads "SIZE " followed by the brush
\* size; an activation of the size button moves the size to the next of
\* 1, 3, 6, 9, 12, from 12 back to 1, and no other step of the loop changes
\* the brush size.
C14_BrushCycling == [](BrushConsistent) /\ [][BrushStep]_vars

(* The fifth activation: the size has gone 9, 12, 1, 3 and is 6 again. *)
C14_Witness ==
    /\ outcome = "sampled"
    /\ touches = <<SizePoint>>
    /\ SizeRan(1)
    /\ Before(1).pixel_size = 3
    /\ pixel_size = 6
    /\ current_brush_index = 2
    /\ brush_label = SizeText(6)

(* The wrap-around from 12 to 1. *)
C14_WitnessWrap ==
    /\ outcome = "sampled"
    /\ SizeRan(1)
    /\ Before(1).pixel_size = 12
    /\ pixel_size = 1


---------------------------------------------------------------------------
(* Tool changes and the stroke (checked under Spec).                       *)

Tool(s) == <<s.current_color, s.pixel_size>>

\* C15: a handled touch in palette sections 0..6 sets the current colour to
\* the bitmap pixel at the touched point and resets the stroke; the canvas
\* hit that follows an idle stroke is a lone stamp in the current colour;
\* and whenever a canvas hit draws a line from the last point, that point
\* was sampled under the colour and the brush size the line is drawn with.
C15_ToolChange ==
    \A i \in TouchIndexes :
        LET b == Before(i)
            a == After(i)
            p == touches[i]
        IN  /\ (LeftHit(i) /\ Section(i) <= 6) =>
                  /\ a.current_color = Pixel(b.bitmap, p)
                  /\ Idle(a)
            /\ (CanvasHit(i) /\ Idle(b)) =>
                  a.bitmap = draw_brush(b.bitmap, p[1], p[2], b.current_color,
                                        b.pixel_size)
            /\ (CanvasHit(i) /\ ~Idle(b)) => b.stroke_tool = Tool(b)
            /\ Tool(a) # Tool(b) => Idle(a)

(* Canvas hit at the corner in white, palette pick of another colour, canvas *)
(* hit: the second hit is a lone stamp in the new colour, and the corner     *)
(* keeps the old one.                                                        *)
C15_Witness ==
    /\ outcome = "sampled"
    /\ touches = <<CanvasPoint>>
    /\ Idle(Before(1))
    /\ Before(1).stroke_tool # None
    /\ Before(1).stroke_tool[1] # current_color
    /\ Pixel(bitmap, CornerPoint) = Before(1).stroke_tool[1]
    /\ Pixel(bitmap, CanvasPoint) = current_color
    /\ bitmap = draw_brush(Before(1).bitmap, CanvasPoint[1], CanvasPoint[2],
                           current_color, pixel_size)


---------------------------------------------------------------------------
(* Touch release (checked under Spec).                                     *)

(* A loop iteration that found the panel untouched. *)
ReleaseStep ==
    outcome' = "released" =>
        /\ ~is_drawing'
        /\ last_draw_pos' = None
        /\ ~size_button_pressed'
        /\ ~clear_button_pressed'
        /\ UNCHANGED <<bitmap, current_color, current_brush_index, pixel_size,
                       brush_label, size_button_last_change,
                       clear_button_last_change>>

(* The first touch handled after a release, when it is a canvas hit. *)
StampAfterRelease ==
    (/\ outcome = "released"
     /\ outcome' = "sampled"
     /\ InRange(touches'[1][1], touches'[1][2])
     /\ touches'[1][1] >= palette_width) =>
        LET p == touches'[1]
            painted == IF Len(trace') > 1 THEN trace'[2].bitmap ELSE bitmap'
        IN  painted = draw_brush(bitmap, p[1], p[2], current_color, pixel_size)

\* C16: after a loop iteration that reports no touch the stroke is idle
\* (is_drawing false, no last point) and both button latches are released,
\* whatever the state before; the canvas, the current colour, the brush size
\* and both buttons' last change times are unchanged; and a canvas hit that
\* comes next is a lone stamp.
C16_ReleaseResets == [][ReleaseStep /\ StampAfterRelease]_vars

(* A release that ended a stroke and freed the clear latch: the clear button *)
(* had fired in this touch and the canvas was hit after it.                  *)
C16_Witness ==
    /\ outcome = "released"
    /\ polls = 3
    /\ stroke_tool # None
    /\ clear_button_last_change > 0
    /\ ~is_drawing
    /\ last_draw_pos = None
    /\ ~clear_button_pressed
    /\ \E q \in Pixels : q[1] >= palette_width /\ Pixel(bitmap, q) # 0


---------------------------------------------------------------------------
(* Bounds safety (checked under Spec).                                     *)

\* C17: whatever the touch samples are, every index the loop subscripts the
\* bitmap with, for reading or for writing, is on the display, stamps
\* centred at the display edge included; and a touch point off the display
\* is skipped: it leaves the canvas, the current colour, the brush size, the
\* stroke and the latches as they were.
C17_BoundsSafety ==
    \A i \in TouchIndexes :
        LET b == Before(i)
            a == After(i)
            p == touches[i]
        IN  /\ BitmapIndexes(b, current_time, p) \subseteq Pixels
            /\ DOMAIN a.bitmap = 0 .. display_width - 1
            /\ \A x \in DOMAIN a.bitmap : DOMAIN a.bitmap[x] = 0 .. display_height - 1
            /\ p \notin Pixels =>
                  /\ a = b
                  /\ BitmapIndexes(b, current_time, p) = {}

(* A touch point off the display, skipped in the middle of a stroke that     *)
(* began with a clipped stamp at the corner of the display, the clear button *)
(* latched.                                                                  *)
C17_Witness ==
    /\ outcome = "sampled"
    /\ touches = <<OutsidePoint>>
    /\ State = Before(1)
    /\ is_drawing
    /\ last_draw_pos = CornerPoint
    /\ clear_button_pressed
    /\ Pixel(bitmap, CornerPoint) = current_color
    /\ Cardinality({q \in Pixels : Pixel(bitmap, q) = current_color /\ q[1] >= palette_width}) = 16


---------------------------------------------------------------------------
(* Touch read fault (checked under Spec).                                  *)

(* A loop iteration in which reading the touch points raised RuntimeError. *)
FaultStep ==
    outcome' = "fault" =>
        /\ UNCHANGED <<bitmap, current_color, current_brush_index, pixel_size,
                       brush_label>>
        /\ clear_runs' = clear_runs
        /\ size_runs' = size_runs
        /\ UNCHANGED <<clear_button_last_change, size_button_last_change>>

(* The iteration after a fault handles a canvas touch as usual. *)
SampleAfterFault ==
    (/\ outcome = "fault"
     /\ outcome' = "sampled"
     /\ touches' = <<CanvasPoint>>) =>
        /\ is_drawing'
        /\ last_draw_pos' = CanvasPoint
        /\ Pixel(bitmap', CanvasPoint) = current_color
        /\ last_touch_time' = current_time'

(* The loop goes on after a fault: the next iteration can be taken. *)
LoopGoesOn ==
    (outcome = "fault" /\ polls < poll_limit) =>
        /\ ENABLED Released(touch_delay + 1)
        /\ ENABLED TouchFault(touch_delay + 1)

---------------------------------------------------------------------------
(* The end-to-end scenario (checked under SpecScenario).                   *)

(* The sample at (50, 10): a colour pick in section 0. *)
ScenarioPickStep ==
    (outcome' = "sampled" /\ touches' = <<ScenarioPick>>) =>
        /\ current_color' = Pixel(bitmap, ScenarioPick)
        /\ ~is_drawing'
        /\ UNCHANGED <<bitmap, pixel_size>>

(* The sample at (100, 650) has just been handled. *)
AtScenarioFirst == outcome = "sampled" /\ touches = <<ScenarioFirst>>

(* The samples at (100, 650) and (300, 650) as canvas hits: a stamp, then a *)
(* line between the two, the brush size as it was.                          *)
ScenarioAsStroke ==
    /\ (outcome' = "sampled" /\ touches' = <<ScenarioFirst>>) =>
          /\ is_drawing'
          /\ last_draw_pos' = ScenarioFirst
          /\ Pixel(bitmap', ScenarioFirst) = current_color
          /\ UNCHANGED <<pixel_size, size_runs, clear_runs>>
    /\ (AtScenarioFirst /\ outcome' = "sampled" /\ touches' = <<ScenarioSecond>>) =>
          /\ bitmap' = draw_line(bitmap, ScenarioFirst[1], ScenarioFirst[2],
                                 ScenarioSecond[1], ScenarioSecond[2],
                                 current_color, pixel_size)
          /\ UNCHANGED <<pixel_size, size_runs, clear_runs>>

\* C19 as stated: with palette width 160 and section height 80, the samples
\* (50, 10), (100, 650), (300, 650) of one touch set the current colour to
\* the pixel at (50, 10) and then draw a stroke from (100, 650) to
\* (300, 650) with the current brush size, both points being canvas hits,
\* with no change of brush size and no button action.
C19_ScenarioStroke == [][ScenarioPickStep /\ ScenarioAsStroke]_vars

(* The sample at (100, 650) is a hit on the size button, and the sample at  *)
(* (300, 650) after it a lone stamp.                                        *)
ScenarioAsSizeButton ==
    /\ (outcome' = "sampled" /\ touches' = <<ScenarioFirst>>) =>
          /\ UNCHANGED <<bitmap, current_color, clear_runs>>
          /\ (size_runs' = size_runs + 1) <=>
                (~size_button_pressed
                 /\ current_time' - size_button_last_change > button_debounce_time)
          /\ (size_runs' = size_runs + 1) =>
                /\ current_brush_index' = (current_brush_index + 1) % Len(brush_sizes)
                /\ pixel_size' = brush_sizes[current_brush_index' + 1]
                /\ ~is_drawing'
                /\ last_draw_pos' = None
          /\ (size_runs' = size_runs) => UNCHANGED <<pixel_size, is_drawing, last_draw_pos>>
    /\ (AtScenarioFirst /\ ~is_drawing
        /\ outcome' = "sampled" /\ touches' = <<ScenarioSecond>>) =>
          /\ bitmap' = draw_brush(bitmap, ScenarioSecond[1], ScenarioSecond[2],
                                  current_color, pixel_size)
          /\ is_drawing'
          /\ last_draw_pos' = ScenarioSecond
          /\ UNCHANGED <<current_color, pixel_size, size_runs, clear_runs>>

\* C19 amended: the sample at (50, 10) sets the current colour to the pixel
\* there and resets the stroke; (100, 650) has x < 160 and section 8, so it
\* is a hit on the size button: it paints nothing and, when the button is
\* not latched and its cooldown is over, moves the brush to the next size
\* and resets the stroke; (300, 650) is a canvas hit that stamps the brush
\* once, in the picked colour and the brush size then current; no line is
\* drawn from (100, 650) to (300, 650).
C19_ScenarioSizeButton == [][ScenarioPickStep /\ ScenarioAsSizeButton]_vars

(* The scenario from the start: colour picked at (50, 10), size 6 to 9 at   *)
(* (100, 650), one 9-pixel stamp at (300, 650) on the untouched canvas.     *)
C19_Witness ==
    /\ outcome = "sampled"
    /\ polls = 3
    /\ touches = <<ScenarioSecond>>
    /\ Before(1).size_runs = 1
    /\ Before(1).size_button_pressed
    /\ pixel_size = 9
    /\ current_color = Pixel(create_bitmap_and_palette, ScenarioPick)
    /\ current_color # Convert(16777215)
    /\ bitmap = draw_brush(create_bitmap_and_palette, ScenarioSecond[1],
                           ScenarioSecond[2], current_color, 9)
    /\ Pixel(bitmap, ScenarioFirst) = Pixel(create_bitmap_and_palette, ScenarioFirst)


---------------------------------------------------------------------------
(* Cooldown rejection (checked under SpecButtons).                         *)

ClearSample == outcome' = "sampled" /\ touches' = <<ClearPoint>>
SizeSample == outcome' = "sampled" /\ touches' = <<SizePoint>>

(* A sample on a free button inside its cooldown: no latch, no new time. *)
RejectedStep ==
    /\ (/\ ClearSample
        /\ ~clear_button_pressed
        /\ current_time' - clear_button_last_change <= button_debounce_time) =>
          /\ ~clear_button_pressed'
          /\ UNCHANGED <<clear_button_last_change, clear_runs, bitmap>>
    /\ (/\ SizeSample
        /\ ~size_button_pressed
        /\ current_time' - size_button_last_change <= button_debounce_time) =>
          /\ ~size_button_pressed'
          /\ UNCHANGED <<size_button_last_change, size_runs, pixel_size>>

(* The finger stays on a button whose last sample was rejected: the first   *)
(* sample after the cooldown runs the action.                               *)
HeldStep ==
    /\ (/\ outcome = "sampled" /\ touches = <<ClearPoint>>
        /\ ~clear_button_pressed
        /\ ClearSample
        /\ current_time' - clear_button_last_change > button_debounce_time) =>
          /\ clear_runs' = clear_runs + 1
          /\ clear_button_pressed'
          /\ clear_button_last_change' = current_time'
    /\ (/\ outcome = "sampled" /\ touches = <<SizePoint>>
        /\ ~size_button_pressed
        /\ SizeSample
        /\ current_time' - size_button_last_change > button_debounce_time) =>
          /\ size_runs' = size_runs + 1
          /\ size_button_pressed'
          /\ size_button_last_change' = current_time'

\* C20: a sample on a button that is rejected because the cooldown is not
\* over leaves the button's latch released and its last change time as it
\* was; so when the finger is lifted, touches the button again inside the
\* cooldown and stays there, the action runs in that same hold, at the first
\* sample handled after the cooldown is over, with no release in between.
C20_RejectionDoesNotLatch == [][RejectedStep /\ HeldStep]_vars

(* The clear action ran, the finger was lifted, touched the clear button    *)
(* again inside the cooldown (the sample before this one, rejected) and the *)
(* action has now run again in the same hold.                               *)
C20_Witness ==
    /\ outcome = "sampled"
    /\ touches = <<ClearPoint>>
    /\ polls = 4
    /\ ClearRan(1)
    /\ Before(1).clear_runs = 0
    /\ ~Before(1).clear_button_pressed
    /\ Before(1).clear_button_last_change > 0
    /\ Before(1).last_touch_time > Before(1).clear_button_last_change
    /\ Before(1).last_touch_time - Before(1).clear_button_last_change
          <= button_debounce_time
    /\ current_time - Before(1).last_touch_time \in Deltas
    /\ Before(1).size_button_last_change = 0

===========================================================================
